---------------------------- MODULE Spec2Model ----------------------------
(***************************************************************************)
(* A model of fedimg's EC2 upload pipeline (fedimg/services/ec2.py) and of *)
(* the batch dispatcher (fedimg/uploader.py).                              *)
(*                                                                         *)
(* Python values are encoded as follows: None is the string "None", the    *)
(* empty string is "", the booleans returned to the retry wrapper are the  *)
(* strings "True" and "False".  A text (a command's output, an image name) *)
(* is a sequence of tokens.                                                *)
(***************************************************************************)
EXTENDS Integers, Sequences, FiniteSets, TLC

\* ------------------------------------------------------------------ bounds

\* Most status queries one run issues (the poller itself is unbounded).
MaxPolls == 3
\* Most snapshot checks one run makes (the waiter itself is unbounded).
MaxChecks == 3
\* Most duplicate-name answers the provider gives one run.
MaxDup == 2
\* Longest command output, in tokens.
MaxOut == 2

\* ----------------------------------------------------------- python values

None == "None"

\* ------------------------------------------------------------ job parameters

VIRT_TYPES == {"paravirtual", "hvm"}
VOL_TYPES == {"standard", "gp2"}

\* The build name taken from the file name; digits are tokens of their own.
BUILD_NAMES == {<<"f">>, <<"f", "1", "9">>}

\* regions[0] of the configured region list.
REGION == <<"us-east-", "1">>

\* ------------------------------------------------------------ image names

Digits == {"0", "1", "2", "3", "4", "5", "6", "7", "8", "9"}

DigitVal(d) ==
    CASE d = "0" -> 0 [] d = "1" -> 1 [] d = "2" -> 2 [] d = "3" -> 3
      [] d = "4" -> 4 [] d = "5" -> 5 [] d = "6" -> 6 [] d = "7" -> 7
      [] d = "8" -> 8 [] d = "9" -> 9

DigitChr(n) ==
    CASE n = 0 -> "0" [] n = 1 -> "1" [] n = 2 -> "2" [] n = 3 -> "3"
      [] n = 4 -> "4" [] n = 5 -> "5" [] n = 6 -> "6" [] n = 7 -> "7"
      [] n = 8 -> "8" [] n = 9 -> "9"

\* str(n) for n >= 0, as a sequence of digit tokens.
RECURSIVE IntToStr(_)
IntToStr(n) ==
    IF n < 10 THEN <<DigitChr(n)>>
    ELSE Append(IntToStr(n \div 10), DigitChr(n % 10))

\* The regular expression \d(?!\d) at position i: a digit that no digit follows.
MatchesLastDigit(name, i) ==
    /\ name[i] \in Digits
    /\ (i = Len(name) \/ name[i + 1] \notin Digits)

\* re.sub('\d(?!\d)', lambda x: str(int(x.group(0)) + 1), image_name):
\* every match is replaced, each by the decimal text of the matched digit + 1.
RECURSIVE SubFrom(_, _)
SubFrom(name, i) ==
    IF i > Len(name) THEN <<>>
    ELSE (IF MatchesLastDigit(name, i)
          THEN IntToStr(DigitVal(name[i]) + 1)
          ELSE <<name[i]>>) \o SubFrom(name, i + 1)

\* RenameOnDuplicate keeping one digit per match: 9 becomes 0.
RECURSIVE SubWrappingFrom(_, _)
SubWrappingFrom(name, i) ==
    IF i > Len(name) THEN <<>>
    ELSE (IF MatchesLastDigit(name, i)
          THEN <<DigitChr((DigitVal(name[i]) + 1) % 10)>>
          ELSE <<name[i]>>) \o SubWrappingFrom(name, i + 1)

RenameOnDuplicateWrapping(name) == SubWrappingFrom(name, 1)

RenameOnDuplicate(name) == SubFrom(name, 1)

VirtTag(vt) == IF vt = "paravirtual" THEN "PV" ELSE "HVM"

RootDeviceName(vt) == IF vt = "paravirtual" THEN "/dev/sda" ELSE "/dev/sda1"

VolTypeText(vol) == IF vol = "gp2" THEN <<"gp", "2">> ELSE <<"standard">>

\* "{0}-{1}-PV-{2}-0" or "{0}-{1}-HVM-{2}-0"
ImageName(build, vt, vol) ==
    build \o <<"-">> \o REGION \o <<"-", VirtTag(vt), "-">>
          \o VolTypeText(vol) \o <<"-", "0">>

\* ------------------------------------------------------- command outputs

ImportTokens == {"IMPORTVOLUME", "import-vol-aaaaaaaa"}
StatusTokens == {"active", "completed", "vol-aaaaaaaaaaaaaaaaa",
                 "vol-bbbbbbbbbbbbbbbbb"}

TaskIds == {"import-vol-aaaaaaaa"}
VolumeIds == {"vol-aaaaaaaaaaaaaaaaa", "vol-bbbbbbbbbbbbbbbbb"}

Texts(tokens) == UNION {[1..n -> tokens] : n \in 0..MaxOut}

\* re.search('\s(<pattern>)', output) and group(1): the first token of the
\* pattern's shape that whitespace precedes, i.e. not the text's first token.
Matches(ids, output) == {i \in 2..Len(output) : output[i] \in ids}

HasMatch(ids, output) == Matches(ids, output) # {}

FirstMatch(ids, output) ==
    output[CHOOSE i \in Matches(ids, output) :
               \A j \in Matches(ids, output) : i <= j]

match_regex_pattern(ids, output) ==
    IF HasMatch(ids, output) THEN FirstMatch(ids, output) ELSE ""

\* 'completed' in out
Contains(output, tok) == \E i \in 1..Len(output) : output[i] = tok

\* fedimg.util.retry_if_result_false: the result that asks for another attempt.
retry_if_result_false(result) == result \in {"", "False"}


\* ------------------------------------------------------------------ state

VARIABLES
    \* EC2Service.__init__ and the configuration
    virt_type, vol_type, build_name,
    clean_up_on_failure, delete_images_on_failure,
    \* EC2Service.upload
    pc, failed_at, task_id, volume_id,
    volume, snapshot, snapshot_state, image,
    image_name, cnt,
    \* the provider's view: the run's snapshot, the image names it has taken
    provider_snap, taken_names,
    \* what the run has done so far
    oplog, succeeded, poll_log, status_out, snap_checks, list_calls,
    created_state, attempts, destroy_calls, messages,
    clean_up_calls, cleanup_log,
    \* uploader.upload
    urls, dpc, services, job_state, tmpdir

jobVars == <<virt_type, vol_type, build_name,
             clean_up_on_failure, delete_images_on_failure>>
refVars == <<volume, snapshot, snapshot_state, image>>
regVars == <<image_name, cnt, attempts, taken_names>>
pollVars == <<task_id, volume_id, poll_log, status_out>>
waitVars == <<snap_checks, list_calls, created_state>>
cleanVars == <<clean_up_calls, cleanup_log>>
batchVars == <<urls, dpc, services, job_state, tmpdir>>

runVars == <<jobVars, pc, failed_at, refVars, regVars, pollVars, waitVars,
             provider_snap, oplog, succeeded, destroy_calls, messages,
             cleanVars>>

vars == <<runVars, batchVars>>

SnapshotId == "snap-1"
ImageId == "ami-1"

\* The remote operations of one run, in the order upload() issues them.
Ops == <<"import", "poll", "lookup", "snapshot", "wait", "public",
         "destroy", "register">>

OpIndex(op) == CHOOSE i \in 1..Len(Ops) : Ops[i] = op

\* The log of operations issued, consecutive repeats of one operation merged.
Issue(op) ==
    oplog' = IF oplog # <<>> /\ oplog[Len(oplog)] = op
             THEN oplog ELSE Append(oplog, op)

\* An exception leaves upload(): nothing in upload() catches it.
Fail(step) == pc' = "failed" /\ failed_at' = step

\* ------------------------------------------------------------------- Init

InitBatchIdle ==
    /\ urls = <<>>
    /\ dpc = "idle"
    /\ services = <<>>
    /\ job_state = <<>>
    /\ tmpdir = "none"

InitRun ==
    /\ virt_type \in VIRT_TYPES
    /\ vol_type \in VOL_TYPES
    /\ build_name \in BUILD_NAMES
    /\ clean_up_on_failure \in BOOLEAN
    /\ delete_images_on_failure \in BOOLEAN
    /\ pc = "start"
    /\ failed_at = None
    /\ task_id = None
    /\ volume_id = None
    /\ volume = None
    /\ snapshot = None
    /\ snapshot_state = None
    /\ image = None
    /\ image_name = <<>>
    /\ cnt = 0
    /\ provider_snap = None
    /\ taken_names = {}
    /\ oplog = <<>>
    /\ succeeded = {}
    /\ poll_log = <<>>
    /\ status_out = <<>>
    /\ snap_checks = 0
    /\ list_calls = 0
    /\ created_state = None
    /\ attempts = <<>>
    /\ destroy_calls = <<>>
    /\ messages = <<>>
    /\ clean_up_calls = 0
    /\ cleanup_log = <<>>

Init == InitRun /\ InitBatchIdle

\* ------------------------------------------------------ EC2Service.upload

\* What the messenger is given: topic, status and the fields of extra
\* (None, and no text for the region, where the call passes no extra).
Message(topic, status, id, vt, vol, region) ==
    [topic |-> topic, status |-> status, id |-> id, virt_type |-> vt,
     vol_type |-> vol, region |-> region]

\* Lines 98-105: the 'started' notification; the messenger may raise.
Start ==
    /\ pc = "start"
    /\ \/ /\ messages' = Append(messages,
                 Message("image.upload", "started", None, None, None, <<>>))
          /\ pc' = "zones"
          /\ UNCHANGED failed_at
       \/ /\ Fail("start")
          /\ UNCHANGED messages
    /\ UNCHANGED <<jobVars, refVars, regVars, pollVars, waitVars,
                   provider_snap, oplog, succeeded, destroy_calls,
                   cleanVars, batchVars>>

\* Lines 107-114: the driver and availability_zone[0], which raises when the
\* driver lists no zone or the listing fails.
GetAvailabilityZone ==
    /\ pc = "zones"
    /\ \/ pc' = "import" /\ UNCHANGED failed_at
       \/ Fail("zones")
    /\ UNCHANGED <<jobVars, refVars, regVars, pollVars, waitVars,
                   provider_snap, oplog, succeeded, destroy_calls, messages,
                   cleanVars, batchVars>>

\* Lines 123-125: euca-import-volume, then the task id taken from its output;
\* an output without a task id gives task_id = '' and raises nothing.
ImportImageVolume ==
    /\ pc = "import"
    /\ Issue("import")
    /\ \/ \E out \in Texts(ImportTokens) :
            /\ task_id' = match_regex_pattern(TaskIds, out)
            /\ succeeded' = succeeded \cup {"import"}
            /\ pc' = "poll"
            /\ UNCHANGED failed_at
       \/ /\ Fail("import")
          /\ UNCHANGED <<task_id, succeeded>>
    /\ UNCHANGED <<jobVars, refVars, regVars, volume_id, poll_log,
                   status_out, waitVars, provider_snap, destroy_calls,
                   messages, cleanVars, batchVars>>

\* ConversionResult without the test of 'completed'.
ConversionResultIgnoringCompleted(out) ==
    IF HasMatch(VolumeIds, out) THEN FirstMatch(VolumeIds, out) ELSE ""

\* What one attempt of describe_conversion_tasks (lines 220-236) makes of the
\* status output: the volume id, '' for "not yet", or "raise" when 'completed'
\* is there and re.search finds nothing (match is None, match.group raises).
ConversionResult(out) ==
    IF Contains(out, "completed")
    THEN (IF HasMatch(VolumeIds, out) THEN FirstMatch(VolumeIds, out)
          ELSE "raise")
    ELSE ""

\* Line 208, @retry(retry_on_result=retry_if_result_false, wait_fixed=5000):
\* the wrapper is given no retry_on_exception and no stop condition, so it
\* calls again after every exception as well as after every rejected result,
\* and returns the first result that is not rejected.
RetryAgain(result) == result = "raise" \/ retry_if_result_false(result)

\* Lines 220-228 of one attempt under the wrapper: the status command is
\* run for task_id, whatever it is, and raises or gives its output.
\* status_out is the attempt's local variable out.
RunStatusCommand ==
    /\ pc = "poll"
    /\ Len(poll_log) < MaxPolls
    /\ Issue("poll")
    /\ \/ \E out \in Texts(StatusTokens) :
            status_out' = out /\ pc' = "status"
       \/ status_out' = <<>> /\ pc' = "status_raised"
    /\ UNCHANGED <<jobVars, refVars, regVars, task_id, volume_id, poll_log,
                   waitVars, failed_at, provider_snap, succeeded,
                   destroy_calls, messages, cleanVars, batchVars>>

\* Lines 230-236 and the wrapper's decision: the attempt's result is
\* returned to upload() or the wrapper calls again; poll_log keeps what each
\* attempt came to.
DescribeConversionTasks ==
    /\ pc \in {"status", "status_raised"}
    /\ LET result == IF pc = "status_raised" THEN "raise"
                     ELSE ConversionResult(status_out)
       IN /\ poll_log' = Append(poll_log,
                IF pc = "status_raised" THEN "error"
                ELSE IF result = "raise" THEN "malformed"
                ELSE IF result = "" THEN "notyet" ELSE "volume")
          /\ IF RetryAgain(result)
             THEN pc' = "poll" /\ UNCHANGED <<volume_id, succeeded>>
             ELSE /\ volume_id' = result
                  /\ succeeded' = succeeded \cup {"poll"}
                  /\ pc' = "lookup"
    /\ status_out' = <<>>
    /\ UNCHANGED <<jobVars, refVars, regVars, task_id, waitVars, failed_at,
                   provider_snap, oplog, destroy_calls, messages,
                   cleanVars, batchVars>>

\* LookupVolume taking [0] of driver.list_volumes() without the test of the id.
LookupVolumeFirstListed ==
    /\ pc = "lookup"
    /\ Issue("lookup")
    /\ \/ /\ volume' \in VolumeIds
          /\ succeeded' = succeeded \cup {"lookup"}
          /\ pc' = "snapshot"
          /\ UNCHANGED failed_at
       \/ /\ Fail("lookup")
          /\ UNCHANGED <<volume, succeeded>>
    /\ UNCHANGED <<jobVars, snapshot, snapshot_state, image, regVars,
                   pollVars, waitVars, provider_snap, destroy_calls,
                   messages, cleanVars, batchVars>>

\* Lines 200-201: the volume among driver.list_volumes(); [0] raises when the
\* list holds no volume of that id.
LookupVolume ==
    /\ pc = "lookup"
    /\ Issue("lookup")
    /\ \/ /\ volume' = volume_id
          /\ succeeded' = succeeded \cup {"lookup"}
          /\ pc' = "snapshot"
          /\ UNCHANGED failed_at
       \/ /\ Fail("lookup")
          /\ UNCHANGED <<volume, succeeded>>
    /\ UNCHANGED <<jobVars, snapshot, snapshot_state, image, regVars,
                   pollVars, waitVars, provider_snap, destroy_calls,
                   messages, cleanVars, batchVars>>

\* Lines 203-204: driver.create_volume_snapshot; created_state keeps the
\* state the snapshot came back in.
CreateVolumeSnapshot ==
    /\ pc = "snapshot"
    /\ Issue("snapshot")
    /\ \/ \E st \in {"pending", "completed", "error"} :
            /\ snapshot' = SnapshotId
            /\ snapshot_state' = st
            /\ provider_snap' = st
            /\ created_state' = st
            /\ succeeded' = succeeded \cup {"snapshot"}
            /\ pc' = "wait"
            /\ UNCHANGED failed_at
       \/ /\ Fail("snapshot")
          /\ UNCHANGED <<snapshot, snapshot_state, provider_snap,
                         created_state, succeeded>>
    /\ UNCHANGED <<jobVars, volume, image, regVars, pollVars, snap_checks,
                   list_calls, destroy_calls, messages, cleanVars, batchVars>>

\* The provider works on the snapshot on its own.
ProviderSnapshotProgress ==
    /\ \/ provider_snap = "pending" /\ provider_snap' \in {"completed", "error"}
       \/ provider_snap = "error" /\ provider_snap' = "gone"
    /\ UNCHANGED <<jobVars, pc, failed_at, refVars, regVars, pollVars,
                   waitVars, oplog, succeeded, destroy_calls, messages,
                   cleanVars, batchVars>>

\* CheckSnapshotExists with the test written as state == 'pending': any
\* other state counts as done.
CheckSnapshotExistsUntilNotPending ==
    /\ pc = "wait"
    /\ snap_checks < MaxChecks
    /\ snap_checks' = snap_checks + 1
    /\ IF snapshot_state = "pending"
       THEN /\ Issue("wait")
            /\ list_calls' = list_calls + 1
            /\ \/ /\ provider_snap # "gone"
                  /\ snapshot_state' = provider_snap
               \/ UNCHANGED snapshot_state
            /\ UNCHANGED <<pc, succeeded, failed_at>>
       ELSE /\ succeeded' = succeeded \cup {"wait"}
            /\ pc' = "public"
            /\ UNCHANGED <<snapshot_state, list_calls, oplog, failed_at>>
    /\ UNCHANGED <<jobVars, volume, snapshot, image, regVars, pollVars,
                   created_state, provider_snap, destroy_calls,
                   messages, cleanVars, batchVars>>

\* CheckSnapshotExists under a wrapper that lets the IndexError of [0] out
\* instead of calling again.
CheckSnapshotExistsStoppingOnException ==
    /\ pc = "wait"
    /\ snap_checks < MaxChecks
    /\ snap_checks' = snap_checks + 1
    /\ IF snapshot_state # "completed"
       THEN /\ Issue("wait")
            /\ list_calls' = list_calls + 1
            /\ \/ /\ provider_snap # "gone"
                  /\ snapshot_state' = provider_snap
                  /\ UNCHANGED <<pc, failed_at>>
               \/ /\ provider_snap = "gone"
                  /\ Fail("wait")
                  /\ UNCHANGED snapshot_state
            /\ UNCHANGED succeeded
       ELSE /\ succeeded' = succeeded \cup {"wait"}
            /\ pc' = "public"
            /\ UNCHANGED <<snapshot_state, list_calls, oplog, failed_at>>
    /\ UNCHANGED <<jobVars, volume, snapshot, image, regVars, pollVars,
                   created_state, provider_snap, destroy_calls,
                   messages, cleanVars, batchVars>>

\* CheckSnapshotExists returning True as soon as the listed snapshot is
\* 'completed', in the check that listed it.
CheckSnapshotExistsDoneOnRefetch ==
    /\ pc = "wait"
    /\ snap_checks < MaxChecks
    /\ snap_checks' = snap_checks + 1
    /\ IF snapshot_state # "completed"
       THEN /\ Issue("wait")
            /\ list_calls' = list_calls + 1
            /\ \/ /\ provider_snap # "gone"
                  /\ snapshot_state' = provider_snap
               \/ UNCHANGED snapshot_state
            /\ IF snapshot_state' = "completed"
               THEN succeeded' = succeeded \cup {"wait"} /\ pc' = "public"
               ELSE UNCHANGED <<pc, succeeded>>
       ELSE /\ succeeded' = succeeded \cup {"wait"}
            /\ pc' = "public"
            /\ UNCHANGED <<snapshot_state, list_calls, oplog>>
    /\ UNCHANGED <<jobVars, volume, snapshot, image, regVars, pollVars,
                   created_state, failed_at, provider_snap, destroy_calls,
                   messages, cleanVars, batchVars>>

\* One attempt of _check_snapshot_exists (lines 348-363) under its @retry,
\* which calls again after False and after an exception (list_snapshots
\* raising, or [0] on an empty list when the snapshot is gone).
CheckSnapshotExists ==
    /\ pc = "wait"
    /\ snap_checks < MaxChecks
    /\ snap_checks' = snap_checks + 1
    /\ IF snapshot_state # "completed"
       THEN /\ Issue("wait")
            /\ list_calls' = list_calls + 1
            /\ \/ /\ provider_snap # "gone"
                  /\ snapshot_state' = provider_snap
               \/ UNCHANGED snapshot_state
            /\ UNCHANGED <<pc, succeeded>>
       ELSE /\ succeeded' = succeeded \cup {"wait"}
            /\ pc' = "public"
            /\ UNCHANGED <<snapshot_state, list_calls, oplog>>
    /\ UNCHANGED <<jobVars, volume, snapshot, image, regVars, pollVars,
                   created_state, failed_at, provider_snap, destroy_calls,
                   messages, cleanVars, batchVars>>

\* MakeSnapshotPublic with the driver's exception caught and ignored.
MakeSnapshotPublicIgnoringFailure ==
    /\ pc = "public"
    /\ Issue("public")
    /\ \/ succeeded' = succeeded \cup {"public"}
       \/ UNCHANGED succeeded
    /\ pc' = "destroy"
    /\ UNCHANGED <<jobVars, refVars, regVars, pollVars, waitVars, failed_at,
                   provider_snap, destroy_calls, messages,
                   cleanVars, batchVars>>

\* Lines 131-133: driver.ex_modify_snapshot_attribute, group 'all'.
MakeSnapshotPublic ==
    /\ pc = "public"
    /\ Issue("public")
    /\ \/ /\ succeeded' = succeeded \cup {"public"}
          /\ pc' = "destroy"
          /\ UNCHANGED failed_at
       \/ /\ Fail("public")
          /\ UNCHANGED succeeded
    /\ UNCHANGED <<jobVars, refVars, regVars, pollVars, waitVars,
                   provider_snap, destroy_calls, messages,
                   cleanVars, batchVars>>

\* DestroyVolume without the assignment self.volume = None.
DestroyVolumeKeepingReference ==
    /\ pc = "destroy"
    /\ Issue("destroy")
    /\ destroy_calls' = Append(destroy_calls, volume)
    /\ \/ /\ succeeded' = succeeded \cup {"destroy"}
          /\ pc' = "name"
          /\ UNCHANGED failed_at
       \/ /\ Fail("destroy")
          /\ UNCHANGED succeeded
    /\ UNCHANGED <<jobVars, refVars, regVars, pollVars, waitVars,
                   provider_snap, messages, cleanVars, batchVars>>

\* Lines 137-140: driver.destroy_volume(self.volume), then self.volume = None.
DestroyVolume ==
    /\ pc = "destroy"
    /\ Issue("destroy")
    /\ destroy_calls' = Append(destroy_calls, volume)
    /\ \/ /\ volume' = None
          /\ succeeded' = succeeded \cup {"destroy"}
          /\ pc' = "name"
          /\ UNCHANGED failed_at
       \/ /\ Fail("destroy")
          /\ UNCHANGED <<volume, succeeded>>
    /\ UNCHANGED <<jobVars, snapshot, snapshot_state, image, regVars,
                   pollVars, waitVars, provider_snap, messages,
                   cleanVars, batchVars>>

\* Lines 146-171: the first candidate name, the root device and the mapping.
BuildImageName ==
    /\ pc = "name"
    /\ image_name' = ImageName(build_name, virt_type, vol_type)
    /\ pc' = "register"
    /\ UNCHANGED <<jobVars, failed_at, refVars, cnt, attempts, taken_names,
                   pollVars, waitVars, provider_snap, oplog, succeeded,
                   destroy_calls, messages, cleanVars, batchVars>>

\* Lines 325-329: the name of this turn of register_image's loop.
CandidateName == IF cnt > 0 THEN RenameOnDuplicate(image_name) ELSE image_name

\* RegisterAttempt with the test of 'InvalidAMIName.Duplicate' left out of
\* the except clause: whatever is raised, the loop takes another turn.
RegisterAttemptRetryingAllErrors(answer) ==
    /\ pc = "register"
    /\ Issue("register")
    /\ image_name' = CandidateName
    /\ attempts' = Append(attempts,
           [name |-> CandidateName,
            root_device_name |-> RootDeviceName(virt_type),
            snapshot_id |-> snapshot,
            volume_type |-> vol_type])
    /\ \/ /\ answer = "ok"
          /\ image' = ImageId
          /\ succeeded' = succeeded \cup {"register"}
          /\ pc' = "notify"
          /\ UNCHANGED <<cnt, failed_at, taken_names>>
       \/ /\ answer = "dup"
          /\ cnt' = cnt + 1
          /\ taken_names' = taken_names \cup {CandidateName}
          /\ UNCHANGED <<image, succeeded, pc, failed_at>>
       \/ /\ answer = "other"
          /\ UNCHANGED <<image, succeeded, cnt, taken_names, pc, failed_at>>
    /\ UNCHANGED <<jobVars, volume, snapshot, snapshot_state, pollVars,
                   waitVars, provider_snap, destroy_calls, messages,
                   cleanVars, batchVars>>

\* RegisterAttempt with the rename's retry going back to create_snapshot.
RegisterAttemptRedoingSnapshot(answer) ==
    /\ pc = "register"
    /\ Issue("register")
    /\ image_name' = CandidateName
    /\ attempts' = Append(attempts,
           [name |-> CandidateName,
            root_device_name |-> RootDeviceName(virt_type),
            snapshot_id |-> snapshot,
            volume_type |-> vol_type])
    /\ \/ /\ answer = "ok"
          /\ image' = ImageId
          /\ succeeded' = succeeded \cup {"register"}
          /\ pc' = "notify"
          /\ UNCHANGED <<cnt, failed_at, taken_names>>
       \/ /\ answer = "dup"
          /\ cnt' = cnt + 1
          /\ taken_names' = taken_names \cup {CandidateName}
          /\ pc' = "snapshot"
          /\ UNCHANGED <<image, succeeded, failed_at>>
       \/ /\ answer = "other"
          /\ Fail("register")
          /\ UNCHANGED <<image, succeeded, cnt, taken_names>>
    /\ UNCHANGED <<jobVars, volume, snapshot, snapshot_state, pollVars,
                   waitVars, provider_snap, destroy_calls, messages,
                   cleanVars, batchVars>>

\* One turn of register_image's loop (lines 324-345): the rename when
\* cnt > 0, then driver.ex_register_image, which returns the image ("ok"),
\* raises InvalidAMIName.Duplicate ("dup": cnt += 1, next turn; the name is
\* one the provider has taken) or raises anything else ("other").
RegisterAttempt(answer) ==
    /\ pc = "register"
    /\ Issue("register")
    /\ image_name' = CandidateName
    /\ attempts' = Append(attempts,
           [name |-> CandidateName,
            root_device_name |-> RootDeviceName(virt_type),
            snapshot_id |-> snapshot,
            volume_type |-> vol_type])
    /\ \/ /\ answer = "ok"
          /\ image' = ImageId
          /\ succeeded' = succeeded \cup {"register"}
          /\ pc' = "notify"
          /\ UNCHANGED <<cnt, failed_at, taken_names>>
       \/ /\ answer = "dup"
          /\ cnt' = cnt + 1
          /\ taken_names' = taken_names \cup {CandidateName}
          /\ UNCHANGED <<image, succeeded, pc, failed_at>>
       \/ /\ answer = "other"
          /\ Fail("register")
          /\ UNCHANGED <<image, succeeded, cnt, taken_names>>
    /\ UNCHANGED <<jobVars, volume, snapshot, snapshot_state, pollVars,
                   waitVars, provider_snap, destroy_calls, messages,
                   cleanVars, batchVars>>

\* The loop's turns with the provider free in its answer, at most MaxDup of
\* them InvalidAMIName.Duplicate.
RegisterImage ==
    \E answer \in {"ok", "dup", "other"} :
        /\ answer = "dup" => cnt < MaxDup
        /\ RegisterAttempt(answer)

\* NotifyCreated with extra's id taken from the snapshot.
NotifyCreatedWithSnapshotId ==
    /\ pc = "notify"
    /\ \/ /\ messages' = Append(messages,
                 Message("image.create", "created", snapshot, virt_type,
                         vol_type, REGION))
          /\ pc' = "done"
          /\ UNCHANGED failed_at
       \/ /\ Fail("notify")
          /\ UNCHANGED messages
    /\ UNCHANGED <<jobVars, refVars, regVars, pollVars, waitVars,
                   provider_snap, oplog, succeeded, destroy_calls,
                   cleanVars, batchVars>>

\* Lines 177-185: the 'created' notification with the image's id, the
\* virtualization type, the volume type and the region.
NotifyCreated ==
    /\ pc = "notify"
    /\ \/ /\ messages' = Append(messages,
                 Message("image.create", "created", image, virt_type,
                         vol_type, REGION))
          /\ pc' = "done"
          /\ UNCHANGED failed_at
       \/ /\ Fail("notify")
          /\ UNCHANGED messages
    /\ UNCHANGED <<jobVars, refVars, regVars, pollVars, waitVars,
                   provider_snap, oplog, succeeded, destroy_calls,
                   cleanVars, batchVars>>

\* ---------------------------------------------------- EC2Service._clean_up

\* Lines 88-93, on the references as they are.
CleanUp(delete_images) ==
    /\ clean_up_calls' = clean_up_calls + 1
    /\ cleanup_log' = cleanup_log
          \o (IF delete_images /\ image # None
              THEN <<"delete_image">> ELSE <<>>)
          \o (IF snapshot # None /\ image # None
              THEN <<"destroy_volume_snapshot">> ELSE <<>>)
    /\ snapshot' = IF snapshot # None /\ image # None THEN None ELSE snapshot
    /\ UNCHANGED <<jobVars, pc, failed_at, volume, snapshot_state, image,
                   regVars, pollVars, waitVars, provider_snap, oplog,
                   succeeded, destroy_calls, messages, batchVars>>

\* Most calls of the cleanup routine on one run.
MaxCleanUps == 2

\* The caller's use of the routine after a failed run, as the configuration
\* flags ask for it.  Nothing in upload() or in uploader.upload makes this
\* call: it is part of SpecCleanUp only.
CleanUpOnFailure ==
    /\ pc = "failed"
    /\ clean_up_on_failure
    /\ clean_up_calls < MaxCleanUps
    /\ CleanUp(delete_images_on_failure)

\* ------------------------------------------------------------ one run

UploadStep ==
    \/ Start
    \/ GetAvailabilityZone
    \/ ImportImageVolume
    \/ RunStatusCommand
    \/ DescribeConversionTasks
    \/ LookupVolume
    \/ CreateVolumeSnapshot
    \/ CheckSnapshotExists
    \/ MakeSnapshotPublic
    \/ DestroyVolume
    \/ BuildImageName
    \/ RegisterImage
    \/ NotifyCreated

Next == UploadStep \/ ProviderSnapshotProgress

Spec == Init /\ [][Next]_vars

NextCleanUp == Next \/ CleanUpOnFailure

SpecCleanUp == Init /\ [][NextCleanUp]_vars

\* ------------------------------------------- register_image on its own

\* Most image names taken in the region ahead of one registration.
MaxTaken == 11

\* The name of the turn after n InvalidAMIName.Duplicate answers.
RECURSIVE NthCandidate(_, _)
NthCandidate(name, n) ==
    IF n = 0 THEN name ELSE RenameOnDuplicate(NthCandidate(name, n - 1))

\* The sets of taken names that matter to one registration: the loop stops at
\* its first candidate that is free, so a set counts by the candidates it
\* holds from the first one on.
TakenSets(name) ==
    {{NthCandidate(name, i) : i \in 0..(k - 1)} : k \in 0..MaxTaken}

\* The run as upload() has it at line 174, when register_image is called,
\* with some finite set of names taken at the provider.
InitRegistrarRun ==
    /\ virt_type \in VIRT_TYPES
    /\ vol_type \in VOL_TYPES
    /\ build_name \in BUILD_NAMES
    /\ clean_up_on_failure = FALSE
    /\ delete_images_on_failure = FALSE
    /\ pc = "register"
    /\ failed_at = None
    /\ task_id \in TaskIds
    /\ volume_id \in VolumeIds
    /\ volume = None
    /\ snapshot = SnapshotId
    /\ snapshot_state = "completed"
    /\ image = None
    /\ image_name = ImageName(build_name, virt_type, vol_type)
    /\ cnt = 0
    /\ provider_snap = "completed"
    /\ taken_names \in TakenSets(image_name)
    /\ oplog = <<"import", "poll", "lookup", "snapshot", "public", "destroy">>
    /\ succeeded = {"import", "poll", "lookup", "snapshot", "wait", "public",
                    "destroy"}
    /\ poll_log = <<"volume">>
    /\ status_out = <<>>
    /\ snap_checks = 1
    /\ list_calls = 0
    /\ created_state = "completed"
    /\ attempts = <<>>
    /\ destroy_calls = <<volume_id>>
    /\ messages = <<Message("image.upload", "started", None, None, None,
                            <<>>)>>
    /\ clean_up_calls = 0
    /\ cleanup_log = <<>>

InitRegistrar == InitRegistrarRun /\ InitBatchIdle

\* The loop's turn at a provider that answers by the names taken and raises
\* nothing else.
RegisterImageWhereTaken ==
    RegisterAttempt(IF CandidateName \in taken_names THEN "dup" ELSE "ok")

NextRegistrar == RegisterImageWhereTaken \/ NotifyCreated

\* The loop of lines 324-345 has no wait in it: a turn that can be taken is
\* taken.
RegistrarSpec ==
    InitRegistrar /\ [][NextRegistrar]_vars /\ WF_vars(RegisterImageWhereTaken)

\* --------------------------------------------------------- uploader.upload

\* Most URLs in one batch.
MaxUrls == 3
\* The worker threads of the pool handed to upload().
Workers == {"w1", "w2"}

\* fedimg.util.virt_types_from_url: the virtualization types of one URL.
VirtTypeLists == {<<"hvm">>, <<"hvm", "paravirtual">>}

\* The batches upload() is called with: each URL stands for its index and
\* carries the list virt_types_from_url gives for it.
Batches == UNION {[1..n -> VirtTypeLists] : n \in 0..MaxUrls}

\* ServicesOfUrl with one service per virtualization type only.
ServicesOfUrlOnePerVirtType(u, vts) ==
    [k \in 1..Len(vts) |->
        [url |-> u, virt_type |-> vts[k], vol_type |-> "standard"]]

\* Lines 64-68: per virtualization type, one service per volume type.
ServicesOfUrl(u, vts) ==
    [k \in 1..(2 * Len(vts)) |->
        [url |-> u,
         virt_type |-> vts[(k + 1) \div 2],
         vol_type |-> IF k % 2 = 1 THEN "standard" ELSE "gp2"]]

Finished(i) == job_state[i] \in {"ok", "failed"}

Running == {i \in 1..Len(job_state) : job_state[i] = "running"}

\* Lines 53-56: services = [] and the temporary directory.
MakeTmpDir ==
    /\ dpc = "idle"
    /\ tmpdir' = "exists"
    /\ services' = <<>>
    /\ dpc' = "urls"
    /\ UNCHANGED <<runVars, urls, job_state>>

\* Lines 58-68, one turn of the loop over urls: the download, which may
\* raise, then the services of the URL.
PrepareUrl ==
    /\ dpc = "urls"
    /\ LET seen == {services[k].url : k \in 1..Len(services)}
           u == Cardinality(seen) + 1
       IN /\ u <= Len(urls)
          /\ \/ /\ services' = services \o ServicesOfUrl(u, urls[u])
                /\ UNCHANGED dpc
             \/ /\ dpc' = "raised"
                /\ UNCHANGED services
    /\ UNCHANGED <<runVars, urls, job_state, tmpdir>>

\* Line 70, pool.map entered: every service becomes a task of the pool.
PoolMapStart ==
    /\ dpc = "urls"
    /\ Cardinality({services[k].url : k \in 1..Len(services)}) = Len(urls)
    /\ job_state' = [k \in 1..Len(services) |-> "queued"]
    /\ dpc' = "map"
    /\ UNCHANGED <<runVars, urls, services, tmpdir>>

\* A free worker takes the next task and calls s.upload(compose_meta).
JobStart(i) ==
    /\ dpc \in {"map", "rmtree", "returned", "raised"}
    /\ job_state # <<>>
    /\ job_state[i] = "queued"
    /\ \A j \in 1..(i - 1) : job_state[j] # "queued"
    /\ Cardinality(Running) < Cardinality(Workers)
    /\ job_state' = [job_state EXCEPT ![i] = "running"]
    /\ UNCHANGED <<runVars, urls, dpc, services, tmpdir>>

\* JobFinish with a job's exception dropping the tasks still queued, as a
\* plain loop over the services would.
JobFinishAbortingSiblings(i) ==
    /\ job_state[i] = "running"
    /\ \/ job_state' = [job_state EXCEPT ![i] = "ok"]
       \/ job_state' = [k \in 1..Len(job_state) |->
                           IF k = i THEN "failed"
                           ELSE IF job_state[k] = "queued" THEN "skipped"
                           ELSE job_state[k]]
    /\ UNCHANGED <<runVars, urls, dpc, services, tmpdir>>

\* s.upload(compose_meta) returns or raises in its worker.
JobFinish(i) ==
    /\ job_state[i] = "running"
    /\ \E outcome \in {"ok", "failed"} :
         job_state' = [job_state EXCEPT ![i] = outcome]
    /\ UNCHANGED <<runVars, urls, dpc, services, tmpdir>>

\* Line 70, pool.map left: it blocks until every task has finished, then
\* returns, or raises a task's exception when one failed.
PoolMapEnd ==
    /\ dpc = "map"
    /\ \A i \in 1..Len(job_state) : Finished(i)
    /\ dpc' = IF \E i \in 1..Len(job_state) : job_state[i] = "failed"
              THEN "raised" ELSE "rmtree"
    /\ UNCHANGED <<runVars, urls, services, job_state, tmpdir>>

\* Rmtree reached without waiting for the pool's tasks.
RmtreeWithoutWaiting ==
    /\ dpc \in {"map", "rmtree"}
    /\ tmpdir' = "deleted"
    /\ dpc' = "returned"
    /\ UNCHANGED <<runVars, urls, services, job_state>>

\* Lines 72-73: shutil.rmtree(tmpdir), then upload() returns.
Rmtree ==
    /\ dpc = "rmtree"
    /\ tmpdir' = "deleted"
    /\ dpc' = "returned"
    /\ UNCHANGED <<runVars, urls, services, job_state>>

BatchNext ==
    \/ MakeTmpDir
    \/ PrepareUrl
    \/ PoolMapStart
    \/ \E i \in 1..Len(job_state) : JobStart(i)
    \/ \E i \in 1..Len(job_state) : JobFinish(i)
    \/ PoolMapEnd
    \/ Rmtree

\* One run at rest, whatever its parameters: the batch model does not step it.
InitRunAtRest ==
    /\ InitRun
    /\ virt_type = "hvm"
    /\ vol_type = "standard"
    /\ build_name = <<"f">>
    /\ clean_up_on_failure = FALSE
    /\ delete_images_on_failure = FALSE

BatchInit ==
    /\ InitRunAtRest
    /\ urls \in Batches
    /\ dpc = "idle"
    /\ services = <<>>
    /\ job_state = <<>>
    /\ tmpdir = "none"

BatchSpec == BatchInit /\ [][BatchNext]_vars

\* ------------------------------------------------------------- properties

Range(seq) == {seq[i] : i \in 1..Len(seq)}

\* C1: the remote operations of a run are issued in the order import, poll,
\* volume lookup, snapshot creation, snapshot wait, make-public, volume
\* destruction, registration, each only after every earlier one succeeded;
\* registration is issued only with the snapshot seen completed, made public
\* and the volume destroyed, and never after make-public or destroy_volume
\* failed.
C1_StrictOrder ==
    /\ \A i, j \in 1..Len(oplog) :
          i < j => OpIndex(oplog[i]) < OpIndex(oplog[j])
    /\ \A i \in 1..Len(oplog) :
          \A k \in 1..(OpIndex(oplog[i]) - 1) : Ops[k] \in succeeded
    /\ "register" \in Range(oplog) =>
          /\ snapshot_state = "completed"
          /\ {"wait", "public", "destroy"} \subseteq succeeded
          /\ volume = None
          /\ destroy_calls # <<>>
    /\ failed_at \in {"public", "destroy"} => "register" \notin Range(oplog)

\* A run that issued all eight operations and registered its image.
C1_Witness ==
    /\ pc = "done"
    /\ oplog = Ops

\* The name the rename step is said to produce: the final maximal digit run
\* read as an integer, plus one, put back in its place.
RECURSIVE StrToInt(_)
StrToInt(ds) ==
    IF ds = <<>> THEN 0
    ELSE 10 * StrToInt(SubSeq(ds, 1, Len(ds) - 1)) + DigitVal(ds[Len(ds)])

IncrementFinalRun(name) ==
    LET digitAt == {i \in 1..Len(name) : name[i] \in Digits} IN
    IF digitAt = {} THEN name
    ELSE LET e == CHOOSE i \in digitAt : \A j \in digitAt : j <= i
             s == CHOOSE i \in 1..e :
                    /\ \A k \in i..e : name[k] \in Digits
                    /\ (i = 1 \/ name[i - 1] \notin Digits)
         IN SubSeq(name, 1, s - 1)
              \o IntToStr(StrToInt(SubSeq(name, s, e)) + 1)
              \o SubSeq(name, e + 1, Len(name))

\* C2: after a duplicate-name answer the next candidate name is the rejected
\* name with its final maximal digit run incremented by one as an integer,
\* every other character unchanged.
C2_FinalRunIncrement ==
    [][(pc = "register" /\ cnt > 0 /\ attempts' # attempts)
          => image_name' = IncrementFinalRun(image_name)]_vars

\* C3: when a run fails after it created a snapshot and clean-up-on-failure
\* is configured, the cleanup routine has been invoked by the time the
\* failure leaves upload(), and the snapshot is destroyed.
C3_CleanupOnFailure ==
    (pc = "failed" /\ clean_up_on_failure /\ "snapshot" \in succeeded)
        => (clean_up_calls > 0 /\ snapshot = None)

\* C4: a cleanup run with a Snapshot reference held destroys the snapshot and
\* clears the reference whatever the Image reference and deleteImages are;
\* it requests image deletion exactly when deleteImages is true and an Image
\* reference is held.
C4_CleanupDestroysSnapshot ==
    [][clean_up_calls' # clean_up_calls =>
         LET calls == Range(SubSeq(cleanup_log', Len(cleanup_log) + 1,
                                   Len(cleanup_log')))
         IN /\ snapshot # None =>
                 (snapshot' = None /\ "destroy_volume_snapshot" \in calls)
            /\ "delete_image" \in calls
                 <=> (delete_images_on_failure /\ image # None)]_vars

\* C5 as stated: the Volume and the Snapshot reference are never both held,
\* and once the snapshot is confirmed complete the volume has been destroyed
\* and its reference cleared.
C5_AtMostOneLive ==
    /\ ~(volume # None /\ snapshot # None)
    /\ "wait" \in succeeded => (volume = None /\ "destroy" \in succeeded)

\* C5, amended: both references are held only from snapshot creation until
\* destroy_volume returns (for good when the run fails at make-public or at
\* destroy_volume); once destroy_volume has returned the Volume reference is
\* cleared, the snapshot is held and was confirmed complete, and it stays so
\* through registration and notification.
C5_VolumeClearedAfterDestroy ==
    /\ (volume # None /\ snapshot # None) =>
          \/ pc \in {"wait", "public", "destroy"}
          \/ pc = "failed" /\ failed_at \in {"public", "destroy"}
    /\ "destroy" \in succeeded =>
          /\ volume = None
          /\ snapshot # None
          /\ snapshot_state = "completed"
          /\ "wait" \in succeeded
    /\ pc \in {"name", "register", "notify", "done"} => volume = None

\* Registration under way with the volume gone and the snapshot kept.
C5_Witness ==
    /\ pc = "register"
    /\ attempts # <<>>
    /\ volume = None
    /\ snapshot # None

MapOver == dpc \in {"rmtree", "returned"} \/ (dpc = "raised" /\ job_state # <<>>)

JobSteps == {<<"queued", "running">>, <<"running", "ok">>,
             <<"running", "failed">>}

RECURSIVE VirtTypeCount(_)
VirtTypeCount(batch) ==
    IF batch = <<>> THEN 0
    ELSE Len(batch[Len(batch)])
           + VirtTypeCount(SubSeq(batch, 1, Len(batch) - 1))

ThreeByTwo == Len(urls) = 3 /\ \A u \in 1..3 : Len(urls[u]) = 2

\* C7 as stated: three URLs with two virtualization types each give exactly
\* six runs.
C7_SixRuns ==
    (dpc = "map" /\ ThreeByTwo) => Len(job_state) = 6

\* C7, amended: the dispatcher creates one run per URL, virtualization type
\* and volume type (standard, gp2), all different, and hands every one to
\* the pool: three URLs with two virtualization types each give exactly
\* twelve runs.
C7_TwelveRuns ==
    dpc \in {"map", "rmtree", "returned"} =>
       /\ Len(services) = 2 * VirtTypeCount(urls)
       /\ Len(job_state) = Len(services)
       /\ \A a, b \in 1..Len(services) : services[a] = services[b] => a = b
       /\ \A u \in 1..Len(urls) : \A k \in 1..Len(urls[u]) :
             \A vol \in VOL_TYPES :
                [url |-> u, virt_type |-> urls[u][k], vol_type |-> vol]
                    \in Range(services)
       /\ ThreeByTwo => Len(job_state) = 12

\* Three URLs with two virtualization types each, handed to the pool.
C7_Witness ==
    /\ dpc = "map"
    /\ ThreeByTwo
    /\ Len(job_state) = 12

\* C8: the temporary directory is deleted, and upload() returns, only when
\* every job of the batch has finished.
C8_TmpDirOutlivesJobs ==
    (tmpdir = "deleted" \/ dpc = "returned") =>
        /\ Len(job_state) = Len(services)
        /\ \A i \in 1..Len(job_state) : Finished(i)

\* The directory deleted after a batch of several jobs.
C8_Witness ==
    /\ tmpdir = "deleted"
    /\ dpc = "returned"
    /\ Len(job_state) >= 4

\* C9: an import output without a task identifier ends the run at that
\* step: no status query is issued for it.
C9_NoQueryWithoutTaskId ==
    task_id = "" => (poll_log = <<>> /\ pc \in {"poll", "failed"})

\* C10: a status output with "completed" and no volume identifier is fatal:
\* no further status query follows it and the run fails.
C10_MalformedStatusIsFatal ==
    /\ \A i \in 1..(Len(poll_log) - 1) : poll_log[i] # "malformed"
    /\ ("malformed" \in Range(poll_log) /\ pc # "poll") => pc = "failed"

\* The positions of a status output where a volume identifier stands after
\* whitespace.
VolumeIdAt(out) == {i \in 2..Len(out) : out[i] \in VolumeIds}

PollerDecides == pc \in {"status", "status_raised"} /\ poll_log' # poll_log

\* C11: the poller returns only from a status query whose output holds
\* "completed", and returns the (first) volume identifier of that output; a
\* query whose output lacks "completed" raises nothing and is followed by
\* another query; a query that reports "completed" with a volume identifier
\* makes the poller return that identifier at once.
C11_PollerReturnsReportedVolume ==
    [][PollerDecides =>
         /\ pc' = "lookup" =>
               /\ pc = "status"
               /\ Contains(status_out, "completed")
               /\ \E i \in VolumeIdAt(status_out) :
                     /\ volume_id' = status_out[i]
                     /\ \A j \in VolumeIdAt(status_out) : i <= j
         /\ (pc = "status" /\ ~Contains(status_out, "completed")) =>
               /\ pc' = "poll"
               /\ failed_at' = None
               /\ volume_id' = volume_id
         /\ (pc = "status" /\ Contains(status_out, "completed")
                /\ VolumeIdAt(status_out) # {}) =>
               /\ pc' = "lookup"
               /\ volume_id' \in Range(status_out)]_vars

\* The poller returned the second volume identifier after a "not yet".
C11_Witness ==
    /\ pc = "lookup"
    /\ poll_log = <<"notyet", "volume">>
    /\ volume_id = "vol-bbbbbbbbbbbbbbbbb"

\* C12 as stated: the waiter reports done only when the snapshot in memory is
\* 'completed', and every check that finds it not completed lists the
\* snapshots, replaces the snapshot in memory by the listed entry of its id
\* and reports not-yet; so the snapshot is never made public and the volume
\* never destroyed while the snapshot in memory is not 'completed'.
WaiterChecks == pc = "wait" /\ snap_checks' # snap_checks

C12_EveryCheckReplacesSnapshot ==
    /\ [](("public" \in Range(oplog) \/ "destroy" \in Range(oplog))
            => snapshot_state = "completed")
    /\ [][WaiterChecks =>
            /\ (pc' = "public" => snapshot_state = "completed")
            /\ (snapshot_state # "completed" =>
                    /\ list_calls' = list_calls + 1
                    /\ snapshot' = snapshot
                    /\ snapshot_state' = provider_snap
                    /\ pc' = "wait")]_vars

\* C12, amended: the waiter reports done only when the snapshot in memory is
\* 'completed'; every check that finds it not completed lists the snapshots
\* and reports not-yet, and it replaces the snapshot in memory by the listed
\* entry of its id when the listing returns one: when the listing raises or
\* holds no such entry the snapshot in memory stays as it was and the wrapper
\* calls again.  The snapshot is never made public and the volume never
\* destroyed while the snapshot in memory is not 'completed'.
C12_WaiterGatesPublication ==
    /\ [](("public" \in Range(oplog) \/ "destroy" \in Range(oplog))
            => snapshot_state = "completed")
    /\ [][WaiterChecks =>
            /\ (pc' = "public" =>
                    snapshot_state = "completed" /\ list_calls' = list_calls)
            /\ (snapshot_state # "completed" =>
                    /\ list_calls' = list_calls + 1
                    /\ snapshot' = snapshot
                    /\ \/ snapshot_state' = provider_snap
                       \/ snapshot_state' = snapshot_state
                    /\ (provider_snap = "gone" =>
                            snapshot_state' = snapshot_state)
                    /\ pc' = "wait"
                    /\ failed_at' = None)]_vars

C12_Witness ==
    /\ "destroy" \in Range(oplog)
    /\ created_state = "pending"
    /\ list_calls = 2
    /\ snapshot_state = "completed"

\* C13: once the provider's snapshot is in a state that never becomes
\* 'completed' ('error', or gone from the listing), the waiter never returns:
\* every check lists the snapshots again and the run stays in the wait,
\* neither failed nor past it, with no later operation issued and no
\* 'created' notification.
NeverCompleted == provider_snap \in {"error", "gone"}

C13_WaiterNeverTerminates ==
    /\ [](NeverCompleted =>
            /\ pc = "wait"
            /\ failed_at = None
            /\ "wait" \notin succeeded
            /\ oplog[Len(oplog)] \in {"snapshot", "wait"}
            /\ Len(messages) = 1)
    /\ [][NeverCompleted /\ WaiterChecks =>
            /\ list_calls' = list_calls + 1
            /\ pc' = "wait"]_vars

C13_Witness ==
    /\ provider_snap = "gone"
    /\ snapshot_state = "error"
    /\ pc = "wait"
    /\ snap_checks = 3
    /\ list_calls = 3

\* C14: the registrar takes another turn exactly after an
\* InvalidAMIName.Duplicate answer, which is never raised to the caller; it
\* stops at the first call that returns (the Image reference is that image)
\* or raises anything else (the run fails there, the Image reference stays
\* unset); the calls made are the duplicate answers plus one.
RegistrarCalls == pc = "register" /\ attempts' # attempts

C14_RetryExactlyOnDuplicate ==
    /\ [](/\ (pc = "register" => Len(attempts) = cnt /\ image = None)
          /\ (failed_at = "register" =>
                  Len(attempts) = cnt + 1 /\ image = None)
          /\ ("register" \in succeeded =>
                  Len(attempts) = cnt + 1 /\ image = ImageId))
    /\ [][RegistrarCalls =>
            /\ Len(attempts') = Len(attempts) + 1
            /\ (cnt' # cnt <=> pc' = "register")
            /\ (cnt' # cnt => cnt' = cnt + 1 /\ failed_at' = None)
            /\ (pc' # "register" =>
                    \/ pc' = "notify" /\ image' = ImageId
                    \/ pc' = "failed" /\ failed_at' = "register"
                          /\ image' = None)]_vars

C14_Witness ==
    /\ failed_at = "register"
    /\ cnt = 2
    /\ Len(attempts) = 3
    /\ image = None

\* C15: from the first registration call to the last the Snapshot and Volume
\* references stay as they are, no driver call other than ex_register_image
\* is made, and every call carries the same root device, the same mapping
\* and the same snapshot id: only the name differs from call to call.
Registering == attempts # <<>> /\ image = None /\ pc # "failed"

C15_RetriesKeepEverythingButName ==
    /\ [](/\ (Registering => pc = "register")
          /\ \A i \in 1..Len(attempts) :
                /\ attempts[i].root_device_name = attempts[1].root_device_name
                /\ attempts[i].volume_type = attempts[1].volume_type
                /\ attempts[i].snapshot_id = attempts[1].snapshot_id
                /\ attempts[i].snapshot_id = SnapshotId
                /\ (i > 1 => attempts[i].name # attempts[i - 1].name))
    /\ [][(pc = "register" /\ pc' \in {"register", "notify", "failed"}) =>
            /\ UNCHANGED <<volume, snapshot, snapshot_state>>
            /\ UNCHANGED <<destroy_calls, list_calls, snap_checks, poll_log>>
            /\ oplog' \in {oplog, Append(oplog, "register")}]_vars

C15_Witness ==
    /\ "register" \in succeeded
    /\ Len(attempts) = 3
    /\ volume = None
    /\ snapshot = SnapshotId

\* C16: cleanup is idempotent: a run of the cleanup routine that follows
\* another one on the same state makes no driver call (no delete_image, no
\* destroy_volume_snapshot) and changes no reference, whatever deleteImages
\* is.
C16_CleanupIdempotent ==
    [][(clean_up_calls >= 1 /\ clean_up_calls' # clean_up_calls) =>
          /\ cleanup_log' = cleanup_log
          /\ UNCHANGED refVars]_vars

\* C17: a run sends 'started' before its first remote operation; it sends
\* 'created' at most once and only after the registration has succeeded,
\* with the registered image's id, the virtualization type, the volume type
\* and the region; a failed run never sends 'created'.
Sent(status) == {i \in 1..Len(messages) : messages[i].status = status}

C17_StartedFirstCreatedLast ==
    /\ (pc \notin {"start"} /\ failed_at # "start") =>
           /\ messages # <<>>
           /\ messages[1].status = "started"
           /\ messages[1].topic = "image.upload"
    /\ oplog # <<>> => 1 \in Sent("started")
    /\ Cardinality(Sent("started")) <= 1
    /\ Cardinality(Sent("created")) <= 1
    /\ (pc = "done") <=> (Sent("created") # {})
    /\ pc = "failed" => Sent("created") = {}
    /\ \A i \in Sent("created") :
          /\ i = Len(messages)
          /\ "register" \in succeeded
          /\ messages[i] = Message("image.create", "created", ImageId,
                                    virt_type, vol_type, REGION)
          /\ messages[i].id = image

C17_Witness ==
    /\ pc = "done"
    /\ Len(messages) = 2
    /\ messages[2].id = ImageId
    /\ messages[2].vol_type = "gp2"
    /\ cnt = 1

\* C18: with finitely many names taken and a provider that answers every
\* call with the image or with InvalidAMIName.Duplicate, register_image
\* comes to an end with an image; the names it tries are pairwise distinct,
\* so no name that was refused is tried again.
NamesTried == [i \in 1..Len(attempts) |-> attempts[i].name]

C18_RegistrarTerminates ==
    /\ <>(image = ImageId /\ pc # "register")
    /\ [](\A i, j \in 1..Len(attempts) :
              i # j => NamesTried[i] # NamesTried[j])
    /\ [](pc # "register" =>
              /\ attempts[Len(attempts)].name \notin taken_names
              /\ \A i \in 1..(Len(attempts) - 1) :
                    NamesTried[i] \in taken_names)

C18_Witness ==
    /\ "register" \in succeeded
    /\ Len(attempts) = MaxTaken + 1
    /\ Cardinality(taken_names) = MaxTaken
    /\ build_name = <<"f", "1", "9">>

\* InitRegistrarRun is a state upload() reaches.
RegistrarStartReached ==
    /\ pc = "register" /\ attempts = <<>>
    /\ oplog = <<"import", "poll", "lookup", "snapshot", "public", "destroy">>
    /\ succeeded = {"import", "poll", "lookup", "snapshot", "wait", "public",
                    "destroy"}
    /\ poll_log = <<"volume">>
    /\ snap_checks = 1 /\ list_calls = 0 /\ created_state = "completed"
    /\ destroy_calls = <<volume_id>> /\ provider_snap = "completed"
    /\ Len(messages) = 1 /\ status_out = <<>> /\ task_id \in TaskIds

\* C19: in every state of upload(), when the Image reference is set the
\* Volume reference is cleared, destroy_volume has been called exactly once
\* and on the volume whose id the poller returned, and the Snapshot reference
\* is set with state 'completed'; the Image reference is set only by a
\* registration call that returned.
C19_ImageImpliesResourcesSettled ==
    /\ image # None =>
          /\ image = ImageId
          /\ "register" \in succeeded
          /\ volume = None
          /\ destroy_calls = <<volume_id>>
          /\ volume_id \in VolumeIds
          /\ "destroy" \in succeeded
          /\ snapshot = SnapshotId
          /\ snapshot_state = "completed"
    /\ "register" \notin succeeded => image = None

C19_Witness ==
    /\ image = ImageId
    /\ pc = "failed"
    /\ volume_id = "vol-bbbbbbbbbbbbbbbbb"
    /\ list_calls = 1

\* C20: the waiter reports done only in a check that finds the snapshot in
\* memory 'completed' when it starts; a check that lists the snapshots
\* reports not-yet even when the listed state is 'completed'.  So a snapshot
\* not 'completed' at creation costs at least one list call and two checks,
\* and the checks made are the list calls plus one.
C20_DoneOnlyOnLaterCheck ==
    /\ []((pc = "wait" => snap_checks = list_calls)
           /\ ("wait" \in succeeded =>
                  /\ snap_checks = list_calls + 1
                  /\ (created_state # "completed" =>
                         list_calls >= 1 /\ snap_checks >= 2)
                  /\ (created_state = "completed" =>
                         list_calls = 0 /\ snap_checks = 1)))
    /\ [][WaiterChecks =>
            /\ (pc' = "public" <=> snapshot_state = "completed")
            /\ (list_calls' # list_calls =>
                    pc' = "wait" /\ "wait" \notin succeeded')]_vars

C20_Witness ==
    /\ pc = "wait"
    /\ created_state = "pending"
    /\ snapshot_state = "completed"
    /\ snap_checks = 1
    /\ list_calls = 1

====
